---- MODULE Spec2Model ----
(***************************************************************************)
(* Leafref path lexer (pyang/leafref_path_lexer.py) and PLY-based parser   *)
(* (pyang/leafref_path_parser.py) as a state machine.                      *)
(*                                                                         *)
(* A source string is a sequence of one-character strings.  Python values  *)
(* are tagged records [k, v]: k is the Python type ("str", "int", "tuple", *)
(* "list", "None", "SyntaxError"), v the payload.  A namedtuple is a       *)
(* "tuple" (it is one in Python: isinstance and len treat it as such).     *)
(***************************************************************************)
EXTENDS Integers, Sequences, FiniteSets, TLC

\* ---------------------------------------------------------------- values

PyStr(s)   == [k |-> "str", v |-> s]
PyInt(n)   == [k |-> "int", v |-> n]
PyTuple(s) == [k |-> "tuple", v |-> s]
PyList(s)  == [k |-> "list", v |-> s]
None     == [k |-> "None", v |-> <<>>]
\* a raised SyntaxError with its constructor arguments
SyntaxError(args) == [k |-> "SyntaxError", v |-> args]

\* ------------------------------------------------------------ characters

Lower == {"a", "b", "c", "d", "e", "f", "g", "h", "i", "j", "k", "l", "m",
          "n", "o", "p", "q", "r", "s", "t", "u", "v", "w", "x", "y", "z"}
Upper == {"A", "B", "C", "D", "E", "F", "G", "H", "I", "J", "K", "L", "M",
          "N", "O", "P", "Q", "R", "S", "T", "U", "V", "W", "X", "Y", "Z"}
Digit == {"0", "1", "2", "3", "4", "5", "6", "7", "8", "9"}

\* [ \t]
WspChars == {" ", "\t"}
\* [a-zA-Z_]
IdStart == Lower \cup Upper \cup {"_"}
\* [a-zA-Z0-9_\-.]
IdChars == Lower \cup Upper \cup Digit \cup {"_", "-", "."}

\* ----------------------------------------------------------------- lexer

\* the number of consecutive characters of S in source from index i (1-based)
RECURSIVE RunLen(_, _, _)
RunLen(source, i, S) ==
  IF i <= Len(source) /\ source[i] \in S THEN 1 + RunLen(source, i + 1, S) ELSE 0

\* the pattern of a one-character literal
Literal(c, source, pos) ==
  IF source[pos + 1] = c THEN 1 ELSE 0

\* patterns[i].match(source, pos): the length of match.group(0), 0 for None
\* (no pattern matches the empty string); pos is 0-based and < len(source)
match(tokname, source, pos) ==
  CASE tokname = "WSP" -> RunLen(source, pos + 1, WspChars)
    [] tokname = "LEFT_PARENTHESIS" -> Literal("(", source, pos)
    [] tokname = "RIGHT_PARENTHESIS" -> Literal(")", source, pos)
    [] tokname = "LEFT_SQUARE_BRACKET" -> Literal("[", source, pos)
    [] tokname = "RIGHT_SQUARE_BRACKET" -> Literal("]", source, pos)
    [] tokname = "DOTS" ->
         IF pos + 2 <= Len(source) /\ source[pos + 1] = "." /\ source[pos + 2] = "."
         THEN 2 ELSE 0
    [] tokname = "SLASH" -> Literal("/", source, pos)
    [] tokname = "EQUAL" -> Literal("=", source, pos)
    [] tokname = "COLON" -> Literal(":", source, pos)
    [] tokname = "IDENTIFIER" ->
         IF source[pos + 1] \in IdStart
         THEN 1 + RunLen(source, pos + 2, IdChars) ELSE 0

\* the pattern names, in the order scan tries them
patterns ==
  << "WSP", "LEFT_PARENTHESIS", "RIGHT_PARENTHESIS", "LEFT_SQUARE_BRACKET",
     "RIGHT_SQUARE_BRACKET", "DOTS", "SLASH", "EQUAL", "COLON", "IDENTIFIER" >>

current == << "c", "u", "r", "r", "e", "n", "t" >>
deref == << "d", "e", "r", "e", "f" >>

\* functions.get(value, tokname)
functions(value, tokname) ==
  CASE value = current -> "CURRENT_KEYWORD"
    [] value = deref -> "DEREF_KEYWORD"
    [] OTHER -> tokname

token_defs ==
  {patterns[i] : i \in DOMAIN patterns} \cup {"CURRENT_KEYWORD", "DEREF_KEYWORD"}

\* the line of every token: no line breaks in paths
line == 1

\* 'syntax error'
syntax_error == << "s", "y", "n", "t", "a", "x", " ", "e", "r", "r", "o", "r" >>

LeafrefPathTok(type, value, lineno, lexpos) ==
  [type |-> type, value |-> value, lineno |-> lineno, lexpos |-> lexpos]

\* what token() hands the parser when there is no token
NoTok == LeafrefPathTok("None", <<>>, 0, 0)

\* a generator whose columns start at 0
Generator_from_zero(source) == [source |-> source, pos |-> 0, linepos |-> 0]

\* a generator of scan(source, lexer), suspended before its first next() or
\* at its yield: the local variables of its frame
Generator(source) == [source |-> source, pos |-> 0, linepos |-> 1]

\* the first pattern, in order from the i-th, that matches at g.pos; 0 if none
RECURSIVE first_match(_, _)
first_match(g, i) ==
  IF i > Len(patterns) THEN 0
  ELSE IF match(patterns[i], g.source, g.pos) > 0 THEN i
  ELSE first_match(g, i + 1)

\* a scan that skips whitespace instead of yielding it
scan_skipping_wsp(g) ==
  LET skip == IF g.pos < Len(g.source) THEN match("WSP", g.source, g.pos) ELSE 0
      h == [g EXCEPT !.pos = g.pos + skip, !.linepos = g.linepos + skip]
  IN IF h.pos >= Len(h.source)
     THEN [how |-> "StopIteration", tok |-> NoTok, exc |-> None, gen |-> h]
     ELSE LET i == first_match(h, 1) IN
          IF i = 0
          THEN [how |-> "raise", tok |-> NoTok,
                exc |-> SyntaxError(<< PyStr(syntax_error), PyInt(line), PyInt(h.linepos) >>),
                gen |-> h]
          ELSE LET length == match(patterns[i], h.source, h.pos)
                   value == SubSeq(h.source, h.pos + 1, h.pos + length)
                   tokname == IF patterns[i] = "IDENTIFIER"
                              THEN functions(value, patterns[i]) ELSE patterns[i]
               IN [how |-> "yield",
                   tok |-> LeafrefPathTok(tokname, value, line, h.linepos),
                   exc |-> None,
                   gen |-> [h EXCEPT !.pos = h.pos + length,
                                     !.linepos = h.linepos + length]]

\* next(g): the generator resumes after its yield (pos and linepos advance by
\* the length of the token it yielded last, which the frame g already holds
\* advanced) and runs to its next yield, to its end, or to its raise
scan(g) ==
  IF g.pos >= Len(g.source)
  THEN [how |-> "StopIteration", tok |-> NoTok, exc |-> None, gen |-> g]
  ELSE LET i == first_match(g, 1) IN
       IF i = 0
       THEN [how |-> "raise", tok |-> NoTok,
             exc |-> SyntaxError(<< PyStr(syntax_error), PyInt(line), PyInt(g.linepos) >>),
             gen |-> g]
       ELSE LET length == match(patterns[i], g.source, g.pos)
                value == SubSeq(g.source, g.pos + 1, g.pos + length)
                tokname == IF patterns[i] = "IDENTIFIER"
                           THEN functions(value, patterns[i]) ELSE patterns[i]
            IN [how |-> "yield",
                tok |-> LeafrefPathTok(tokname, value, line, g.linepos),
                exc |-> None,
                gen |-> [g EXCEPT !.pos = g.pos + length,
                                  !.linepos = g.linepos + length]]

\* an input that leaves a generator in progress in place
input_keeping(self, source) ==
  IF self.tokens # None THEN self ELSE [self EXCEPT !.tokens = Generator(source)]

\* LeafrefPathLexer.input: the lexer object after input(source)
input(self, source) == [self EXCEPT !.tokens = Generator(source)]

\* LeafrefPathLexer.token: [self |-> the lexer object after the call,
\* ret |-> the token returned (NoTok for None), exc |-> the exception raised]
token(self) ==
  IF self.tokens # None
  THEN LET r == scan(self.tokens) IN
       CASE r.how = "yield" ->
              [self |-> [self EXCEPT !.tokens = r.gen], ret |-> r.tok, exc |-> None]
         [] r.how = "StopIteration" ->
              [self |-> [self EXCEPT !.tokens = None], ret |-> NoTok, exc |-> None]
         [] r.how = "raise" ->
              [self |-> [self EXCEPT !.tokens = None], ret |-> NoTok, exc |-> r.exc]
  ELSE [self |-> self, ret |-> NoTok, exc |-> None]

\* LeafrefPathLexer(): the class attribute tokens = None
LeafrefPathLexer == [tokens |-> None]

\* ---------------------------------------------------------------- parser

\* The grammar: the productions of the p_ functions' docstrings, in the order
\* of the file.  Production i is Productions[i]; production 0 is S' -> path_arg.
Productions ==
  << [name |-> "path_arg", func |-> "p_path_arg",
      rhs |-> << "deref_expr" >>],
     [name |-> "path_arg", func |-> "p_path_arg",
      rhs |-> << "path_str" >>],
     [name |-> "deref_expr", func |-> "p_deref_expr",
      rhs |-> << "deref_function_invocation", "wsp_slash_wsp", "relative_path" >>],
     [name |-> "path_str", func |-> "p_path_str",
      rhs |-> << "absolute_path" >>],
     [name |-> "path_str", func |-> "p_path_str",
      rhs |-> << "relative_path" >>],
     [name |-> "absolute_path", func |-> "p_absolute_path",
      rhs |-> << "absolute_path_segment", "absolute_path_segment_list" >>],
     [name |-> "relative_path", func |-> "p_relative_path",
      rhs |-> << "dots_slash_seq", "descendant_path" >>],
     [name |-> "descendant_path", func |-> "p_descendant_path",
      rhs |-> << "node_identifier" >>],
     [name |-> "descendant_path", func |-> "p_descendant_path",
      rhs |-> << "node_identifier", "path_predicate_list", "absolute_path" >>],
     [name |-> "path_predicate", func |-> "p_path_predicate",
      rhs |-> << "left_square_bracket_wsp", "path_equality_expr", "wsp_right_square_bracket" >>],
     [name |-> "path_equality_expr", func |-> "p_path_equality_expr",
      rhs |-> << "node_identifier", "wsp_equal_wsp", "path_key_expr" >>],
     [name |-> "path_key_expr", func |-> "p_path_key_expr",
      rhs |-> << "current_function_invocation", "wsp_slash_wsp", "rel_path_keyexpr" >>],
     [name |-> "rel_path_keyexpr", func |-> "p_rel_path_keyexpr",
      rhs |-> << "dots_wsp_slash_wsp_seq", "node_identifier_wsp_slash_wsp_list", "node_identifier" >>],
     [name |-> "current_function_invocation", func |-> "p_current_function_invocation",
      rhs |-> << "CURRENT_KEYWORD", "wsp_left_parenthesis_wsp", "RIGHT_PARENTHESIS" >>],
     [name |-> "deref_function_invocation", func |-> "p_deref_function_invocation",
      rhs |-> << "DEREF_KEYWORD", "wsp_left_parenthesis_wsp", "relative_path", "wsp_right_parenthesis" >>],
     [name |-> "node_identifier", func |-> "p_node_identifier",
      rhs |-> << "prefix", "COLON", "identifier" >>],
     [name |-> "node_identifier", func |-> "p_node_identifier",
      rhs |-> << "identifier" >>],
     [name |-> "identifier", func |-> "p_identifier",
      rhs |-> << "IDENTIFIER" >>],
     [name |-> "identifier", func |-> "p_identifier",
      rhs |-> << "CURRENT_KEYWORD" >>],
     [name |-> "identifier", func |-> "p_identifier",
      rhs |-> << "DEREF_KEYWORD" >>],
     [name |-> "prefix", func |-> "p_identifier",
      rhs |-> << "identifier" >>],
     [name |-> "dots_slash_seq", func |-> "p_dots_slash_seq",
      rhs |-> << "dots_slash_seq", "DOTS", "SLASH" >>],
     [name |-> "dots_slash_seq", func |-> "p_dots_slash_seq",
      rhs |-> <<  >>],
     [name |-> "dots_wsp_slash_wsp_seq", func |-> "p_dots_slash_seq",
      rhs |-> << "dots_wsp_slash_wsp_seq", "DOTS", "wsp_slash_wsp" >>],
     [name |-> "dots_wsp_slash_wsp_seq", func |-> "p_dots_slash_seq",
      rhs |-> <<  >>],
     [name |-> "absolute_path_segment", func |-> "p_absolute_path_segment",
      rhs |-> << "SLASH", "node_identifier", "path_predicate_list" >>],
     [name |-> "path_predicate_list", func |-> "p_zero_or_more_lists",
      rhs |-> << "path_predicate_list", "path_predicate" >>],
     [name |-> "path_predicate_list", func |-> "p_zero_or_more_lists",
      rhs |-> <<  >>],
     [name |-> "node_identifier_wsp_slash_wsp_list", func |-> "p_zero_or_more_lists",
      rhs |-> << "node_identifier_wsp_slash_wsp_list", "node_identifier", "wsp_slash_wsp" >>],
     [name |-> "node_identifier_wsp_slash_wsp_list", func |-> "p_zero_or_more_lists",
      rhs |-> <<  >>],
     [name |-> "absolute_path_segment_list", func |-> "p_zero_or_more_lists",
      rhs |-> << "absolute_path_segment_list", "absolute_path_segment" >>],
     [name |-> "absolute_path_segment_list", func |-> "p_zero_or_more_lists",
      rhs |-> <<  >>],
     [name |-> "wsp_slash_wsp", func |-> "p_wsp_slash_wsp",
      rhs |-> << "SLASH" >>],
     [name |-> "wsp_slash_wsp", func |-> "p_wsp_slash_wsp",
      rhs |-> << "WSP", "SLASH" >>],
     [name |-> "wsp_slash_wsp", func |-> "p_wsp_slash_wsp",
      rhs |-> << "SLASH", "WSP" >>],
     [name |-> "wsp_slash_wsp", func |-> "p_wsp_slash_wsp",
      rhs |-> << "WSP", "SLASH", "WSP" >>],
     [name |-> "wsp_equal_wsp", func |-> "p_wsp_equal_wsp",
      rhs |-> << "EQUAL" >>],
     [name |-> "wsp_equal_wsp", func |-> "p_wsp_equal_wsp",
      rhs |-> << "WSP", "EQUAL" >>],
     [name |-> "wsp_equal_wsp", func |-> "p_wsp_equal_wsp",
      rhs |-> << "EQUAL", "WSP" >>],
     [name |-> "wsp_equal_wsp", func |-> "p_wsp_equal_wsp",
      rhs |-> << "WSP", "EQUAL", "WSP" >>],
     [name |-> "left_square_bracket_wsp", func |-> "p_left_square_bracket_wsp",
      rhs |-> << "LEFT_SQUARE_BRACKET" >>],
     [name |-> "left_square_bracket_wsp", func |-> "p_left_square_bracket_wsp",
      rhs |-> << "LEFT_SQUARE_BRACKET", "WSP" >>],
     [name |-> "wsp_right_square_bracket", func |-> "p_wsp_right_square_bracket",
      rhs |-> << "RIGHT_SQUARE_BRACKET" >>],
     [name |-> "wsp_right_square_bracket", func |-> "p_wsp_right_square_bracket",
      rhs |-> << "WSP", "RIGHT_SQUARE_BRACKET" >>],
     [name |-> "wsp_left_parenthesis_wsp", func |-> "p_wsp_left_parenthesis_wsp",
      rhs |-> << "LEFT_PARENTHESIS" >>],
     [name |-> "wsp_left_parenthesis_wsp", func |-> "p_wsp_left_parenthesis_wsp",
      rhs |-> << "WSP", "LEFT_PARENTHESIS" >>],
     [name |-> "wsp_left_parenthesis_wsp", func |-> "p_wsp_left_parenthesis_wsp",
      rhs |-> << "LEFT_PARENTHESIS", "WSP" >>],
     [name |-> "wsp_left_parenthesis_wsp", func |-> "p_wsp_left_parenthesis_wsp",
      rhs |-> << "WSP", "LEFT_PARENTHESIS", "WSP" >>],
     [name |-> "wsp_right_parenthesis", func |-> "p_wsp_right_parenthesis",
      rhs |-> << "RIGHT_PARENTHESIS" >>],
     [name |-> "wsp_right_parenthesis", func |-> "p_wsp_right_parenthesis",
      rhs |-> << "WSP", "RIGHT_PARENTHESIS" >>] >>

\* The LALR(1) action table yacc.yacc() builds for Productions: row s + 1 is
\* state s; k > 0 shifts and goes to state k, k < 0 reduces by production -k,
\* 0 accepts, and a missing entry is a syntax error.  END is the end of input.
\* The grammar has two shift/reduce conflicts, both resolved as shift (no
\* precedence is declared): in state 0 on DEREF_KEYWORD (shift for
\* deref_function_invocation against reducing the empty dots_slash_seq), and
\* after the node_identifier of a rel_path_keyexpr on WSP (shift for
\* wsp_slash_wsp against reducing rel_path_keyexpr).
lr_action ==
  << [CURRENT_KEYWORD |-> -23, DEREF_KEYWORD |-> 9, DOTS |-> -23,
      IDENTIFIER |-> -23, SLASH |-> 10],
     [END |-> 0],
     [END |-> -1],
     [END |-> -2],
     [SLASH |-> 41, WSP |-> 42],
     [END |-> -4],
     [END |-> -5],
     [END |-> -32, RIGHT_PARENTHESIS |-> -32, SLASH |-> -32, WSP |-> -32],
     [CURRENT_KEYWORD |-> 14, DEREF_KEYWORD |-> 15, DOTS |-> 67,
      IDENTIFIER |-> 13],
     [LEFT_PARENTHESIS |-> 34, WSP |-> 35],
     [CURRENT_KEYWORD |-> 14, DEREF_KEYWORD |-> 15, IDENTIFIER |-> 13],
     [COLON |-> 57],
     [COLON |-> -21, END |-> -17, EQUAL |-> -17, LEFT_SQUARE_BRACKET |-> -17,
      RIGHT_PARENTHESIS |-> -17, RIGHT_SQUARE_BRACKET |-> -17, SLASH |-> -17,
      WSP |-> -17],
     [COLON |-> -18, END |-> -18, EQUAL |-> -18, LEFT_SQUARE_BRACKET |-> -18,
      RIGHT_PARENTHESIS |-> -18, RIGHT_SQUARE_BRACKET |-> -18, SLASH |-> -18,
      WSP |-> -18],
     [COLON |-> -19, END |-> -19, EQUAL |-> -19, LEFT_SQUARE_BRACKET |-> -19,
      RIGHT_PARENTHESIS |-> -19, RIGHT_SQUARE_BRACKET |-> -19, SLASH |-> -19,
      WSP |-> -19],
     [COLON |-> -20, END |-> -20, EQUAL |-> -20, LEFT_SQUARE_BRACKET |-> -20,
      RIGHT_PARENTHESIS |-> -20, RIGHT_SQUARE_BRACKET |-> -20, SLASH |-> -20,
      WSP |-> -20],
     [END |-> -28, LEFT_SQUARE_BRACKET |-> -28, RIGHT_PARENTHESIS |-> -28,
      SLASH |-> -28, WSP |-> -28],
     [END |-> -26, LEFT_SQUARE_BRACKET |-> 20, RIGHT_PARENTHESIS |-> -26,
      SLASH |-> -26, WSP |-> -26],
     [CURRENT_KEYWORD |-> 14, DEREF_KEYWORD |-> 15, IDENTIFIER |-> 13],
     [END |-> -27, LEFT_SQUARE_BRACKET |-> -27, RIGHT_PARENTHESIS |-> -27,
      SLASH |-> -27, WSP |-> -27],
     [CURRENT_KEYWORD |-> -41, DEREF_KEYWORD |-> -41, IDENTIFIER |-> -41,
      WSP |-> 21],
     [CURRENT_KEYWORD |-> -42, DEREF_KEYWORD |-> -42, IDENTIFIER |-> -42],
     [RIGHT_SQUARE_BRACKET |-> 54, WSP |-> 55],
     [EQUAL |-> 25, WSP |-> 26],
     [CURRENT_KEYWORD |-> 32],
     [CURRENT_KEYWORD |-> -37, WSP |-> 29],
     [EQUAL |-> 27],
     [CURRENT_KEYWORD |-> -38, WSP |-> 28],
     [CURRENT_KEYWORD |-> -40],
     [CURRENT_KEYWORD |-> -39],
     [RIGHT_SQUARE_BRACKET |-> -11, WSP |-> -11],
     [SLASH |-> 41, WSP |-> 42],
     [LEFT_PARENTHESIS |-> 34, WSP |-> 35],
     [RIGHT_PARENTHESIS |-> 39],
     [CURRENT_KEYWORD |-> -45, DEREF_KEYWORD |-> -45, DOTS |-> -45,
      IDENTIFIER |-> -45, RIGHT_PARENTHESIS |-> -45, WSP |-> 38],
     [LEFT_PARENTHESIS |-> 36],
     [CURRENT_KEYWORD |-> -46, DEREF_KEYWORD |-> -46, DOTS |-> -46,
      IDENTIFIER |-> -46, RIGHT_PARENTHESIS |-> -46, WSP |-> 37],
     [CURRENT_KEYWORD |-> -48, DEREF_KEYWORD |-> -48, DOTS |-> -48,
      IDENTIFIER |-> -48, RIGHT_PARENTHESIS |-> -48],
     [CURRENT_KEYWORD |-> -47, DEREF_KEYWORD |-> -47, DOTS |-> -47,
      IDENTIFIER |-> -47, RIGHT_PARENTHESIS |-> -47],
     [SLASH |-> -14, WSP |-> -14],
     [CURRENT_KEYWORD |-> -25, DEREF_KEYWORD |-> -25, DOTS |-> -25,
      IDENTIFIER |-> -25],
     [CURRENT_KEYWORD |-> -33, DEREF_KEYWORD |-> -33, DOTS |-> -33,
      IDENTIFIER |-> -33, WSP |-> 45],
     [SLASH |-> 43],
     [CURRENT_KEYWORD |-> -34, DEREF_KEYWORD |-> -34, DOTS |-> -34,
      IDENTIFIER |-> -34, WSP |-> 44],
     [CURRENT_KEYWORD |-> -36, DEREF_KEYWORD |-> -36, DOTS |-> -36,
      IDENTIFIER |-> -36],
     [CURRENT_KEYWORD |-> -35, DEREF_KEYWORD |-> -35, DOTS |-> -35,
      IDENTIFIER |-> -35],
     [RIGHT_SQUARE_BRACKET |-> -12, WSP |-> -12],
     [CURRENT_KEYWORD |-> -30, DEREF_KEYWORD |-> -30, DOTS |-> 49,
      IDENTIFIER |-> -30],
     [CURRENT_KEYWORD |-> 14, DEREF_KEYWORD |-> 15, IDENTIFIER |-> 13],
     [SLASH |-> 41, WSP |-> 42],
     [CURRENT_KEYWORD |-> -24, DEREF_KEYWORD |-> -24, DOTS |-> -24,
      IDENTIFIER |-> -24],
     [RIGHT_SQUARE_BRACKET |-> -13, SLASH |-> 41, WSP |-> 42],
     [CURRENT_KEYWORD |-> -29, DEREF_KEYWORD |-> -29, IDENTIFIER |-> -29],
     [END |-> -10, LEFT_SQUARE_BRACKET |-> -10, RIGHT_PARENTHESIS |-> -10,
      SLASH |-> -10, WSP |-> -10],
     [END |-> -43, LEFT_SQUARE_BRACKET |-> -43, RIGHT_PARENTHESIS |-> -43,
      SLASH |-> -43, WSP |-> -43],
     [RIGHT_SQUARE_BRACKET |-> 56],
     [END |-> -44, LEFT_SQUARE_BRACKET |-> -44, RIGHT_PARENTHESIS |-> -44,
      SLASH |-> -44, WSP |-> -44],
     [CURRENT_KEYWORD |-> 14, DEREF_KEYWORD |-> 15, IDENTIFIER |-> 13],
     [END |-> -16, EQUAL |-> -16, LEFT_SQUARE_BRACKET |-> -16,
      RIGHT_PARENTHESIS |-> -16, RIGHT_SQUARE_BRACKET |-> -16, SLASH |-> -16,
      WSP |-> -16],
     [CURRENT_KEYWORD |-> -23, DEREF_KEYWORD |-> -23, DOTS |-> -23,
      IDENTIFIER |-> -23],
     [RIGHT_PARENTHESIS |-> 62, WSP |-> 63],
     [SLASH |-> -15, WSP |-> -15],
     [SLASH |-> -49, WSP |-> -49],
     [RIGHT_PARENTHESIS |-> 64],
     [SLASH |-> -50, WSP |-> -50],
     [END |-> -7, RIGHT_PARENTHESIS |-> -7, WSP |-> -7],
     [END |-> -8, LEFT_SQUARE_BRACKET |-> -28, RIGHT_PARENTHESIS |-> -8,
      SLASH |-> -28, WSP |-> -8],
     [SLASH |-> 68],
     [CURRENT_KEYWORD |-> -22, DEREF_KEYWORD |-> -22, DOTS |-> -22,
      IDENTIFIER |-> -22],
     [LEFT_SQUARE_BRACKET |-> 20, SLASH |-> 10],
     [END |-> -9, RIGHT_PARENTHESIS |-> -9, WSP |-> -9],
     [END |-> -6, RIGHT_PARENTHESIS |-> -6, SLASH |-> 10, WSP |-> -6],
     [END |-> -31, RIGHT_PARENTHESIS |-> -31, SLASH |-> -31, WSP |-> -31],
     [CURRENT_KEYWORD |-> -23, DEREF_KEYWORD |-> -23, DOTS |-> -23,
      IDENTIFIER |-> -23],
     [END |-> -3] >>

\* The goto table: row s + 1 maps the nonterminals state s has a transition
\* on to its target state.
lr_goto ==
  << [absolute_path |-> 5, absolute_path_segment |-> 7, deref_expr |-> 2,
      deref_function_invocation |-> 4, dots_slash_seq |-> 8, path_arg |-> 1,
      path_str |-> 3, relative_path |-> 6],
     [none |-> 0],
     [none |-> 0],
     [none |-> 0],
     [wsp_slash_wsp |-> 73],
     [none |-> 0],
     [none |-> 0],
     [absolute_path_segment_list |-> 71],
     [descendant_path |-> 65, identifier |-> 12, node_identifier |-> 66,
      prefix |-> 11],
     [wsp_left_parenthesis_wsp |-> 59],
     [identifier |-> 12, node_identifier |-> 16, prefix |-> 11],
     [none |-> 0],
     [none |-> 0],
     [none |-> 0],
     [none |-> 0],
     [none |-> 0],
     [path_predicate_list |-> 17],
     [left_square_bracket_wsp |-> 18, path_predicate |-> 19],
     [identifier |-> 12, node_identifier |-> 23, path_equality_expr |-> 22,
      prefix |-> 11],
     [none |-> 0],
     [none |-> 0],
     [none |-> 0],
     [wsp_right_square_bracket |-> 53],
     [wsp_equal_wsp |-> 24],
     [current_function_invocation |-> 31, path_key_expr |-> 30],
     [none |-> 0],
     [none |-> 0],
     [none |-> 0],
     [none |-> 0],
     [none |-> 0],
     [none |-> 0],
     [wsp_slash_wsp |-> 40],
     [wsp_left_parenthesis_wsp |-> 33],
     [none |-> 0],
     [none |-> 0],
     [none |-> 0],
     [none |-> 0],
     [none |-> 0],
     [none |-> 0],
     [none |-> 0],
     [dots_wsp_slash_wsp_seq |-> 47, rel_path_keyexpr |-> 46],
     [none |-> 0],
     [none |-> 0],
     [none |-> 0],
     [none |-> 0],
     [none |-> 0],
     [none |-> 0],
     [node_identifier_wsp_slash_wsp_list |-> 48],
     [identifier |-> 12, node_identifier |-> 51, prefix |-> 11],
     [wsp_slash_wsp |-> 50],
     [none |-> 0],
     [wsp_slash_wsp |-> 52],
     [none |-> 0],
     [none |-> 0],
     [none |-> 0],
     [none |-> 0],
     [none |-> 0],
     [identifier |-> 58],
     [none |-> 0],
     [dots_slash_seq |-> 8, relative_path |-> 60],
     [wsp_right_parenthesis |-> 61],
     [none |-> 0],
     [none |-> 0],
     [none |-> 0],
     [none |-> 0],
     [none |-> 0],
     [path_predicate_list |-> 69],
     [none |-> 0],
     [none |-> 0],
     [absolute_path |-> 70, absolute_path_segment |-> 7,
      left_square_bracket_wsp |-> 18, path_predicate |-> 19],
     [none |-> 0],
     [absolute_path_segment |-> 72],
     [none |-> 0],
     [dots_slash_seq |-> 8, relative_path |-> 74],
     [none |-> 0] >>

\* ------------------------------------------------------ semantic actions
\* Each p_ function as an operator of p[1..n], the values of the production's
\* right-hand side, giving p[0].  len(p) in the code is Len(p) + 1 here.

predicate == << "p", "r", "e", "d", "i", "c", "a", "t", "e" >>

LeafrefPathArg(args) == PyTuple(args)

LeafrefPathPredicate(args) == PyTuple(args)

p_path_arg(p) ==
  LET args == IF Len(p[1].v) = 2 THEN p[1].v \o << PyInt(0), None >> ELSE p[1].v
  IN LeafrefPathArg(args)

\* derefup, derefdn + up, dn
p_deref_expr_swapped(p) == PyTuple(p[1].v \o p[3].v)

\* up, dn + derefup, derefdn
p_deref_expr(p) == PyTuple(p[3].v \o p[1].v)

p_path_str(p) ==
  IF p[1].k = "tuple" THEN p[1] ELSE PyTuple(<< PyInt(-1), p[1] >>)

p_absolute_path(p) == PyList(p[1].v \o p[2].v)

p_relative_path(p) == PyTuple(<< p[1], p[2] >>)

p_descendant_path(p) ==
  IF Len(p) + 1 = 4 THEN PyList(<< p[1] >> \o p[2].v \o p[3].v) ELSE PyList(<< p[1] >>)

p_path_predicate(p) == p[2]

p_path_equality_expr(p) ==
  LeafrefPathPredicate(<< PyStr(predicate), p[1] >> \o p[3].v)

p_path_key_expr(p) == p[3]

p_rel_path_keyexpr(p) == PyTuple(<< p[1], PyList(Append(p[2].v, p[3])) >>)

p_current_function_invocation(p) ==
  PyStr(<< "c", "u", "r", "r", "e", "n", "t", "(", ")" >>)

p_deref_function_invocation(p) == p[3]

p_node_identifier(p) ==
  IF Len(p) + 1 = 4 THEN PyTuple(<< p[1], p[3] >>) ELSE p[1]

p_identifier(p) == p[1]

\* a dots_slash_seq that does not count
p_dots_slash_seq_flat(p) ==
  IF Len(p) + 1 = 1 THEN PyInt(0) ELSE PyInt(1)

p_dots_slash_seq(p) ==
  IF Len(p) + 1 = 1 THEN PyInt(0) ELSE PyInt(p[1].v + 1)

\* a segment with its predicates before its node identifier
p_absolute_path_segment_reordered(p) == PyList(p[3].v \o << p[2] >>)

p_absolute_path_segment(p) == PyList(<< p[2] >> \o p[3].v)

p_zero_or_more_lists(p) ==
  IF Len(p) + 1 = 1 THEN PyList(<< >>)
  ELSE IF p[2].k = "list" THEN PyList(p[1].v \o p[2].v)
  ELSE PyList(Append(p[1].v, p[2]))

p_wsp_slash_wsp(p) == PyStr(<< "/" >>)

p_wsp_equal_wsp(p) == PyStr(<< "=" >>)

p_left_square_bracket_wsp(p) == PyStr(<< "[" >>)

p_wsp_right_square_bracket(p) == PyStr(<< "]" >>)

p_wsp_left_parenthesis_wsp(p) == PyStr(<< "(" >>)

p_wsp_right_parenthesis(p) == PyStr(<< ")" >>)

\* str(n) for n >= 0
RECURSIVE str(_)
str(n) ==
  LET d == << "0", "1", "2", "3", "4", "5", "6", "7", "8", "9" >>[(n % 10) + 1]
  IN IF n < 10 THEN << d >> ELSE Append(str(n \div 10), d)

\* repr(value) of a token's text: quoted, a tab written \t (no token holds a
\* quote, a backslash or another control character)
RECURSIVE escaped(_)
escaped(value) ==
  IF value = << >> THEN << >>
  ELSE (IF Head(value) = "\t" THEN << "\\", "t" >> ELSE << Head(value) >>)
       \o escaped(Tail(value))

repr(value) == << "'" >> \o escaped(value) \o << "'" >>

\* '[L{line}:C{column}]:, before {value!r}'.format(...)
error_message(lineno, column, value) ==
  << "[", "L" >> \o str(lineno) \o << ":", "C" >> \o str(column)
  \o << "]", ":", ",", " ", "b", "e", "f", "o", "r", "e", " " >> \o repr(value)

unexpected_end ==
  << "u", "n", "e", "x", "p", "e", "c", "t", "e", "d", " ", "e", "n", "d", " ",
     "o", "f", " ", "e", "x", "p", "r", "e", "s", "s", "i", "o", "n" >>

\* a p_error that reports the 0-based offset
p_error_offset(tok) ==
  IF tok # NoTok
  THEN SyntaxError(<< PyStr(error_message(tok.lineno, tok.lexpos - 1, tok.value)) >>)
  ELSE SyntaxError(<< PyStr(unexpected_end) >>)

\* p_error(token): the exception it raises; tok is NoTok for None
p_error(tok) ==
  IF tok # NoTok
  THEN SyntaxError(<< PyStr(error_message(tok.lineno, tok.lexpos, tok.value)) >>)
  ELSE SyntaxError(<< PyStr(unexpected_end) >>)

\* the call of a production's p_ function
call_func(func, p) ==
  CASE func = "p_path_arg" -> p_path_arg(p)
    [] func = "p_deref_expr" -> p_deref_expr(p)
    [] func = "p_path_str" -> p_path_str(p)
    [] func = "p_absolute_path" -> p_absolute_path(p)
    [] func = "p_relative_path" -> p_relative_path(p)
    [] func = "p_descendant_path" -> p_descendant_path(p)
    [] func = "p_path_predicate" -> p_path_predicate(p)
    [] func = "p_path_equality_expr" -> p_path_equality_expr(p)
    [] func = "p_path_key_expr" -> p_path_key_expr(p)
    [] func = "p_rel_path_keyexpr" -> p_rel_path_keyexpr(p)
    [] func = "p_current_function_invocation" -> p_current_function_invocation(p)
    [] func = "p_deref_function_invocation" -> p_deref_function_invocation(p)
    [] func = "p_node_identifier" -> p_node_identifier(p)
    [] func = "p_identifier" -> p_identifier(p)
    [] func = "p_dots_slash_seq" -> p_dots_slash_seq(p)
    [] func = "p_absolute_path_segment" -> p_absolute_path_segment(p)
    [] func = "p_zero_or_more_lists" -> p_zero_or_more_lists(p)
    [] func = "p_wsp_slash_wsp" -> p_wsp_slash_wsp(p)
    [] func = "p_wsp_equal_wsp" -> p_wsp_equal_wsp(p)
    [] func = "p_left_square_bracket_wsp" -> p_left_square_bracket_wsp(p)
    [] func = "p_wsp_right_square_bracket" -> p_wsp_right_square_bracket(p)
    [] func = "p_wsp_left_parenthesis_wsp" -> p_wsp_left_parenthesis_wsp(p)
    [] func = "p_wsp_right_parenthesis" -> p_wsp_right_parenthesis(p)

\* ------------------------------------------------------------- LR engine
\* LRParser.parse(source, lexer): one call's frame is
\*   [statestack, symstack, lookahead], its locals; the lexer is the caller's.

\* the end-of-input symbol the engine makes when token() returns None
EndTok == LeafrefPathTok("END", <<>>, 0, 0)

\* the frame at the start of a call: state 0 on the stack, no lookahead
StartFrame == [statestack |-> << 0 >>, symstack |-> << None >>, lookahead |-> NoTok]

\* no call in progress
NoFrame == [statestack |-> << >>, symstack |-> << >>, lookahead |-> NoTok]

state_of(f) == f.statestack[Len(f.statestack)]

row_of(f) == lr_action[state_of(f) + 1]

\* a state whose only action is one reduction: taken without a lookahead
defaulted_states(s) ==
  LET row == lr_action[s + 1]
  IN Cardinality(DOMAIN row) = 1 /\ \A a \in DOMAIN row : row[a] < 0

\* the engine step the frame is at
step_kind(f) ==
  IF defaulted_states(state_of(f)) THEN "reduce"
  ELSE IF f.lookahead = NoTok THEN "get_token"
  ELSE IF f.lookahead.type \notin DOMAIN row_of(f) THEN "error"
  ELSE IF row_of(f)[f.lookahead.type] > 0 THEN "shift"
  ELSE IF row_of(f)[f.lookahead.type] < 0 THEN "reduce"
  ELSE "accept"

\* the production a reduce step reduces by
reduce_by(f) ==
  IF defaulted_states(state_of(f))
  THEN -(row_of(f)[CHOOSE a \in DOMAIN row_of(f) : TRUE])
  ELSE -(row_of(f)[f.lookahead.type])

\* the lookahead is pushed with its text as value
shift(f) ==
  [statestack |-> Append(f.statestack, row_of(f)[f.lookahead.type]),
   symstack |-> Append(f.symstack, PyStr(f.lookahead.value)),
   lookahead |-> NoTok]

\* the right-hand side is popped, the p_ function called on its values, and
\* its result pushed with the goto state
reduce(f) ==
  LET prod == Productions[reduce_by(f)]
      plen == Len(prod.rhs)
      n == Len(f.statestack)
      p == SubSeq(f.symstack, n - plen + 1, n)
      below == SubSeq(f.statestack, 1, n - plen)
  IN [statestack |-> Append(below, lr_goto[below[Len(below)] + 1][prod.name]),
      symstack |-> Append(SubSeq(f.symstack, 1, n - plen), call_func(prod.func, p)),
      lookahead |-> f.lookahead]

\* the value of path_arg, returned by parse
accept(f) == f.symstack[Len(f.symstack)]

\* the token handed to p_error: None at the end of input
errtoken(f) == IF f.lookahead = EndTok THEN NoTok ELSE f.lookahead

\* --------------------------------------------------------- whole program
\* One configuration: the module-level lexer, the record of what the lexer's
\* clients saw (hist), and one call of parse: its frame, where it is (pc) and
\* what it returned or raised (result).

\* hist: source is the argument of the last input(); dropped the generator
\* that input() replaced (None if there was none); yielded the tokens token()
\* returned since; ended how the stream ended ("no" while it has not); exc what
\* it raised; late the number of token() calls made after the end, and late_ok
\* whether each of them returned None.
NoHist ==
  [source |-> << >>, dropped |-> None, yielded |-> << >>, ended |-> "never",
   exc |-> None, late |-> 0, late_ok |-> TRUE]

\* h after input(source) on lexer `self`
hist_input(self, source) ==
  [source |-> source, dropped |-> self.tokens, yielded |-> << >>, ended |-> "no",
   exc |-> None, late |-> 0, late_ok |-> TRUE]

\* h after a token() call that gave r
hist_token(h, r) ==
  IF h.ended # "no"
  THEN [h EXCEPT !.late = h.late + 1,
                 !.late_ok = h.late_ok /\ r.ret = NoTok /\ r.exc = None]
  ELSE IF r.exc # None THEN [h EXCEPT !.ended = "raise", !.exc = r.exc]
  ELSE IF r.ret = NoTok THEN [h EXCEPT !.ended = "StopIteration"]
  ELSE [h EXCEPT !.yielded = Append(h.yielded, r.ret)]

\* parse(source) up to and including lexer.input(source)
parse_input(c, source) ==
  [lexer |-> input(c.lexer, source), hist |-> hist_input(c.lexer, source),
   frame |-> StartFrame, pc |-> "parsing", result |-> None]

\* get_token(): the lookahead is pulled from the lexer; a SyntaxError of the
\* lexer leaves parse
get_token(c) ==
  LET r == token(c.lexer)
      h == hist_token(c.hist, r)
  IN IF r.exc # None
     THEN [c EXCEPT !.lexer = r.self, !.hist = h, !.pc = "raised", !.result = r.exc]
     ELSE [c EXCEPT !.lexer = r.self, !.hist = h,
                    !.frame.lookahead = IF r.ret = NoTok THEN EndTok ELSE r.ret]

\* one step of the engine's loop
step(c) ==
  CASE step_kind(c.frame) = "get_token" -> get_token(c)
    [] step_kind(c.frame) = "shift" -> [c EXCEPT !.frame = shift(c.frame)]
    [] step_kind(c.frame) = "reduce" -> [c EXCEPT !.frame = reduce(c.frame)]
    [] step_kind(c.frame) = "accept" ->
         [c EXCEPT !.pc = "returned", !.result = accept(c.frame)]
    [] step_kind(c.frame) = "error" ->
         [c EXCEPT !.pc = "raised", !.result = p_error(errtoken(c.frame))]

RECURSIVE run(_)
run(c) == IF c.pc = "parsing" THEN run(step(c)) ELSE c

\* a configuration of a process that has parsed nothing yet
Fresh == [lexer |-> LeafrefPathLexer, hist |-> NoHist, frame |-> NoFrame,
          pc |-> "idle", result |-> None]

\* parser.parse(source, lexer=lexer) run to its end from configuration c
parse_from(c, source) == run(parse_input(c, source))

\* parse(source) on a fresh process: the AST returned or the SyntaxError raised
parse(source) == parse_from(Fresh, source).result

\* ---------------------------------------------------------------- inputs

\* the longest input of the token-level family, in pieces
MaxTokens == 3
\* the longest input of the path-level family, in pieces
MaxParts == 4
\* the most places of one path that get whitespace inserted
MaxWsp == 3
\* the most token() calls a client makes on a stream that has ended
MaxLate == 2

RECURSIVE Concat(_)
Concat(ss) == IF ss = << >> THEN << >> ELSE Head(ss) \o Concat(Tail(ss))

\* every concatenation of at most n pieces of the set Pieces
RECURSIVE Strings(_, _)
Strings(Pieces, n) ==
  IF n = 0 THEN {<< >>}
  ELSE LET S == Strings(Pieces, n - 1) IN S \cup {s \o c : s \in S, c \in Pieces}

\* one piece per token kind, and a character no pattern matches at the start
\* of a token
TokenPieces ==
  { << "/" >>, << ".", "." >>, << "a" >>, current, deref, << ":" >>, << " " >>,
    << "(" >>, << ")" >>, << "[" >>, << "]" >>, << "=" >>, << "." >> }

\* the pieces paths are made of: ../, node identifiers, absolute segments,
\* predicates, and the two ends of a deref invocation
PathPieces ==
  { << ".", ".", "/" >>,
    << "a" >>,
    << "/", "p", ":", "b" >>,
    << "[", "k", "=" >> \o current \o << "(", ")", "/", ".", ".", "/", "c", "]" >>,
    << "[" >> \o deref \o << "=" >> \o current \o << "(", ")", "/", "c", "/", "d", "]" >>,
    deref \o << "(" >>,
    << ")", "/" >> }

\* the paths the documentation of the parser and its grammar give as examples
Examples ==
  { << "/", "a", "/", "b", "/", "c" >>,
    << ".", ".", "/", "a", "/", "b" >>,
    << ".", ".", " ", "/", " ", "a", " ", "/", " ", "b" >>,
    << ".", ".", " ", "/", "a", "/", " ", "b" >>,
    << "p", "f", "x", ":", "n", "o", "d", "e" >>,
    << "/", "a", "[", "b", "=" >> \o current \o << "(", ")", "/", ".", ".", "/", "c", "]" >>,
    deref \o << "(", ".", ".", "/", "i", "f", ":", "r", "e", "f", ")", "/",
                "i", "f", ":", "n", "a", "m", "e" >>,
    current \o << "/" >> \o deref,
    << "/", "/", "a" >>,
    << "a", " ", "!", " ", "b" >>,
    deref \o << "(", ")" >>,
    << "/", "a", "[", " ", "b", " ", "=", " " >> \o current
      \o << " ", "(", " ", ")", "/", " ", ".", ".", " ", "/", " ", "c", " ", "]" >> }

\* paths, token by token, that get whitespace inserted between their tokens
Templates ==
  { << << ".", "." >>, << "/" >>, << "a" >>, << "/" >>, << "b" >> >>,
    << << "/" >>, << "a" >>, << "[" >>, << "b" >>, << "=" >>, current, << "(" >>,
       << ")" >>, << "/" >>, << ".", "." >>, << "/" >>, << "c" >>, << "]" >> >>,
    << deref, << "(" >>, << ".", "." >>, << "/" >>, << "a" >>, << ")" >>, << "/" >>,
       << "b" >> >> }

\* the runs of whitespace inserted
WspRuns == { << " " >>, << "\t", " " >> }

\* tpl with wsp inserted before each token whose index - 1 is in G, and at
\* the end if Len(tpl) is in G
Render(tpl, G, wsp) ==
  Concat([i \in 1..(Len(tpl) + 1) |->
            (IF i - 1 \in G THEN wsp ELSE << >>)
            \o (IF i <= Len(tpl) THEN tpl[i] ELSE << >>)])

WspInputs ==
  UNION { { Render(tpl, G, wsp) :
              G \in {G \in SUBSET (0..Len(tpl)) : Cardinality(G) <= MaxWsp},
              wsp \in WspRuns } : tpl \in Templates }

\* ----------------------------------------------------------------- state

Threads == {"t1", "t2"}

VARIABLES
  lexer,    \* the module-level lexer object of leafref_path_parser
  hist,     \* what the lexer's clients saw since the last input()
  pc,       \* per thread: "idle", "parsing", "returned", "raised", "lexing"
  source,   \* per thread: the argument of its call
  frame,    \* per thread: the locals of its parser.parse call
  result    \* per thread: what its parse call returned or raised

vars == << lexer, hist, pc, source, frame, result >>

Config(t) ==
  [lexer |-> lexer, hist |-> hist, frame |-> frame[t], pc |-> pc[t],
   result |-> result[t]]

Set(t, c) ==
  /\ lexer' = c.lexer
  /\ hist' = c.hist
  /\ frame' = [frame EXCEPT ![t] = c.frame]
  /\ pc' = [pc EXCEPT ![t] = c.pc]
  /\ result' = [result EXCEPT ![t] = c.result]
  /\ UNCHANGED source

\* the process after import: thread t is about to call with an input of S[t]
InitWith(S) ==
  /\ lexer = Fresh.lexer
  /\ hist = Fresh.hist
  /\ pc = [t \in Threads |-> "idle"]
  /\ \E s1 \in S["t1"], s2 \in S["t2"] : source = [t \in Threads |-> IF t = "t1" THEN s1 ELSE s2]
  /\ frame = [t \in Threads |-> Fresh.frame]
  /\ result = [t \in Threads |-> Fresh.result]

\* -------------------------------------------------------------- actions

\* parse(source), the whole call
Parse(t) ==
  /\ pc[t] = "idle"
  /\ Set(t, parse_from(Config(t), source[t]))

\* parse(source) step by step: the call and its lexer.input(source)
ParseInput(t) ==
  /\ pc[t] = "idle"
  /\ Set(t, parse_input(Config(t), source[t]))

GetToken(t) ==
  /\ pc[t] = "parsing"
  /\ step_kind(frame[t]) = "get_token"
  /\ Set(t, step(Config(t)))

Shift(t) ==
  /\ pc[t] = "parsing"
  /\ step_kind(frame[t]) = "shift"
  /\ Set(t, step(Config(t)))

Reduce(t) ==
  /\ pc[t] = "parsing"
  /\ step_kind(frame[t]) = "reduce"
  /\ Set(t, step(Config(t)))

Accept(t) ==
  /\ pc[t] = "parsing"
  /\ step_kind(frame[t]) = "accept"
  /\ Set(t, step(Config(t)))

Error(t) ==
  /\ pc[t] = "parsing"
  /\ step_kind(frame[t]) = "error"
  /\ Set(t, step(Config(t)))

\* the caller takes the result and comes back with another input of S
Return(t, S) ==
  /\ pc[t] \in {"returned", "raised"}
  /\ pc' = [pc EXCEPT ![t] = "idle"]
  /\ frame' = [frame EXCEPT ![t] = NoFrame]
  /\ result' = [result EXCEPT ![t] = None]
  /\ \E s \in S : source' = [source EXCEPT ![t] = s]
  /\ UNCHANGED << lexer, hist >>

\* a client of the lexer alone: lexer.input(source)
LexInput(t) ==
  /\ pc[t] = "idle"
  /\ lexer' = input(lexer, source[t])
  /\ hist' = hist_input(lexer, source[t])
  /\ pc' = [pc EXCEPT ![t] = "lexing"]
  /\ UNCHANGED << source, frame, result >>

\* lexer.token(), a SyntaxError caught
LexToken(t) ==
  /\ pc[t] = "lexing"
  /\ hist.late < MaxLate
  /\ LET r == token(lexer) IN
       /\ lexer' = r.self
       /\ hist' = hist_token(hist, r)
  /\ UNCHANGED << pc, source, frame, result >>

LexDone(t, S) ==
  /\ pc[t] = "lexing"
  /\ pc' = [pc EXCEPT ![t] = "idle"]
  /\ \E s \in S : source' = [source EXCEPT ![t] = s]
  /\ UNCHANGED << lexer, hist, frame, result >>

\* --------------------------------------------------------- specifications

Only(S) == [t \in Threads |-> IF t = "t1" THEN S ELSE {<< >>}]

ParseInputs ==
  Strings(TokenPieces, MaxTokens) \cup Strings(PathPieces, MaxParts)
  \cup WspInputs \cup Examples

\* one thread, whole calls of parse on each input
Init == InitWith(Only(ParseInputs))

Next == Parse("t1")

Spec == Init /\ [][Next]_vars

\* what the client of the lexer alone scans
LexInputs == Strings(TokenPieces, MaxTokens) \cup Examples

\* one thread, using the lexer alone: input(source), then token() until the
\* stream has ended and MaxLate times more
InitLex == InitWith(Only(LexInputs))

NextLex == LexInput("t1") \/ LexToken("t1")

SpecLex == InitLex /\ [][NextLex]_vars

\* what a sequence of calls parses: sentences, inputs the parser rejects with
\* tokens left in the lexer, and inputs the lexer rejects
SeqInputs ==
  { << "/", "a" >>, << ".", ".", "/", "b" >>, << "/", "/", "a" >>,
    << "a", "!" >>, << "a", " ", "!", " ", "b" >>, << >> }

\* one thread, call after call on the module's lexer and parser, each a parse
\* step by step or a use of the lexer alone
InitSeq == InitWith(Only(SeqInputs))

NextSeq ==
  \/ ParseInput("t1")
  \/ GetToken("t1")
  \/ Shift("t1")
  \/ Reduce("t1")
  \/ Accept("t1")
  \/ Error("t1")
  \/ Return("t1", SeqInputs)
  \/ LexInput("t1")
  \/ LexToken("t1")
  \/ LexDone("t1", SeqInputs)

SpecSeq == InitSeq /\ [][NextSeq]_vars

\* what two concurrent callers parse
ConcInputs == { << "/", "a" >>, << ".", ".", "/", "b" >> }

\* two threads, each calling parse once, their steps interleaved
InitConc == InitWith([t \in Threads |-> ConcInputs])

NextConc ==
  \E t \in Threads :
    \/ ParseInput(t)
    \/ GetToken(t)
    \/ Shift(t)
    \/ Reduce(t)
    \/ Accept(t)
    \/ Error(t)

SpecConc == InitConc /\ [][NextConc]_vars

\* ---------------------------------------------------------------- claims
\* What the claims are stated with: the fields of a returned AST, and the
\* text of a path read off the source characters or written back from an AST.

returned(t) == pc[t] = "returned"
raised(t) == pc[t] = "raised"

up_of(r) == r.v[1].v
dn_of(r) == r.v[2]
derefup_of(r) == r.v[3].v
derefdn_of(r) == r.v[4]

\* the source without its spaces and tabs
strip(s) == SelectSeq(s, LAMBDA c : c \notin WspChars)

\* the number of leading "../" of s
RECURSIVE leading_ups(_)
leading_ups(s) ==
  IF Len(s) >= 3 /\ SubSeq(s, 1, 3) = << ".", ".", "/" >>
  THEN 1 + leading_ups(SubSeq(s, 4, Len(s))) ELSE 0

\* s starts with a deref( invocation: the word, optional whitespace, "("
has_deref_call(s) ==
  /\ Len(s) > Len(deref)
  /\ SubSeq(s, 1, Len(deref)) = deref
  /\ LET j == Len(deref) + 1 + RunLen(s, Len(deref) + 1, WspChars)
     IN j <= Len(s) /\ s[j] = "("

\* the index of the ")" that closes the "(" opened before index i of s, at
\* nesting depth d; 0 if there is none
RECURSIVE closing(_, _, _)
closing(s, i, d) ==
  IF i > Len(s) THEN 0
  ELSE IF s[i] = "(" THEN closing(s, i + 1, d + 1)
  ELSE IF s[i] = ")" THEN (IF d = 1 THEN i ELSE closing(s, i + 1, d - 1))
  ELSE closing(s, i + 1, d)

\* of a stripped source deref(R1)/R2: R1 and R2
deref_arg(s) == SubSeq(s, Len(deref) + 2, closing(s, Len(deref) + 2, 1) - 1)
deref_rest(s) == SubSeq(s, closing(s, Len(deref) + 2, 1) + 2, Len(s))

is_identifier_text(s) ==
  /\ Len(s) > 0
  /\ s[1] \in IdStart
  /\ \A i \in DOMAIN s : s[i] \in IdChars

is_node_id(v) ==
  \/ v.k = "str" /\ is_identifier_text(v.v)
  \/ /\ v.k = "tuple"
     /\ Len(v.v) = 2
     /\ \A i \in 1..2 : v.v[i].k = "str" /\ is_identifier_text(v.v[i].v)

is_predicate(v) ==
  /\ v.k = "tuple"
  /\ Len(v.v) = 4
  /\ v.v[1] = PyStr(predicate)
  /\ is_node_id(v.v[2])
  /\ v.v[3].k = "int" /\ v.v[3].v >= 0
  /\ v.v[4].k = "list" /\ Len(v.v[4].v) > 0
  /\ \A i \in DOMAIN v.v[4].v : is_node_id(v.v[4].v[i])

\* a dn list: a node identifier first, then node identifiers and predicates
is_dn(l) ==
  /\ l.k = "list"
  /\ Len(l.v) > 0
  /\ is_node_id(l.v[1])
  /\ \A i \in DOMAIN l.v : is_node_id(l.v[i]) \/ is_predicate(l.v[i])

text_ups(n) == Concat([i \in 1..n |-> << ".", ".", "/" >>])

text_node_id(v) ==
  IF v.k = "str" THEN v.v ELSE v.v[1].v \o << ":" >> \o v.v[2].v

text_keys(l) ==
  Concat([i \in DOMAIN l |-> (IF i = 1 THEN << >> ELSE << "/" >>) \o text_node_id(l[i])])

text_predicate(v) ==
  << "[" >> \o text_node_id(v.v[2]) \o << "=" >> \o current \o << "(", ")", "/" >>
  \o text_ups(v.v[3].v) \o text_keys(v.v[4].v) \o << "]" >>

\* the path with `up` and `dn`: every node identifier but the first of a
\* relative path opens a segment with "/", every predicate follows its segment
text_path(up, dn) ==
  (IF up = -1 THEN << >> ELSE text_ups(up))
  \o Concat([i \in DOMAIN dn.v |->
       IF is_predicate(dn.v[i]) THEN text_predicate(dn.v[i])
       ELSE (IF i = 1 /\ up # -1 THEN << >> ELSE << "/" >>) \o text_node_id(dn.v[i])])

text_arg(r) ==
  (IF derefdn_of(r) = None THEN << >>
   ELSE deref \o << "(" >> \o text_path(derefup_of(r), derefdn_of(r)) \o << ")", "/" >>)
  \o text_path(up_of(r), dn_of(r))

\* C1: for every accepted path without a deref invocation, up is -1 exactly
\* when the source starts with "/", and otherwise the number n >= 0 of leading
\* "../" of the source; no "../" is stored in dn.
C1_UpCountsLeadingDots ==
  LET s == source["t1"]
      r == result["t1"]
  IN (returned("t1") /\ ~has_deref_call(s)) =>
       /\ (up_of(r) = -1) <=> (s[1] = "/")
       /\ s[1] # "/" => up_of(r) = leading_ups(s) /\ up_of(r) >= 0
       /\ \A i \in DOMAIN dn_of(r).v :
            dn_of(r).v[i] \notin {PyStr(<< ".", "." >>), PyStr(<< ".", ".", "/" >>)}

\* a relative path with two leading "../" was accepted
C1_Witness ==
  /\ returned("t1")
  /\ ~has_deref_call(source["t1"])
  /\ up_of(result["t1"]) = 2
  /\ leading_ups(source["t1"]) = 2

\* C6: derefdn is None and derefup 0 exactly when the source has no deref
\* invocation; for deref(R1)/R2, up and dn are those of R2, derefup is the
\* number of "../" of R1 and derefdn the non-empty segment list of R1.
C6_DerefPair ==
  LET s == source["t1"]
      r == result["t1"]
  IN returned("t1") =>
       /\ (derefdn_of(r) = None /\ derefup_of(r) = 0) <=> ~has_deref_call(s)
       /\ derefdn_of(r) = None => derefup_of(r) = 0
       /\ has_deref_call(s) =>
            /\ is_dn(derefdn_of(r))
            /\ derefup_of(r) = leading_ups(deref_arg(strip(s)))
            /\ text_path(derefup_of(r), derefdn_of(r)) = deref_arg(strip(s))
            /\ up_of(r) = leading_ups(deref_rest(strip(s)))
            /\ text_path(up_of(r), dn_of(r)) = deref_rest(strip(s))

\* deref(../if:ref)/if:name was accepted, with derefup 1 and up 0
C6_Witness ==
  /\ returned("t1")
  /\ has_deref_call(source["t1"])
  /\ derefup_of(result["t1"]) = 1
  /\ derefdn_of(result["t1"]) =
       PyList(<< PyTuple(<< PyStr(<< "i", "f" >>), PyStr(<< "r", "e", "f" >>) >>) >>)
  /\ up_of(result["t1"]) = 0

\* C7: dn, and derefdn when present, list in source order each segment's node
\* identifier followed by its predicates, each predicate the 4-tuple
\* ('predicate', node_id, up >= 0, non-empty dn): written back as a path, the
\* AST is the source without its whitespace.
C7_SourceOrder ==
  LET s == source["t1"]
      r == result["t1"]
  IN returned("t1") =>
       /\ is_dn(dn_of(r))
       /\ derefdn_of(r) # None => is_dn(derefdn_of(r))
       /\ text_arg(r) = strip(s)

\* an accepted path with two predicates on one segment and a segment after
C7_Witness ==
  /\ returned("t1")
  /\ Len(dn_of(result["t1"]).v) >= 4
  /\ is_predicate(dn_of(result["t1"]).v[2])
  /\ is_predicate(dn_of(result["t1"]).v[3])
  /\ is_node_id(dn_of(result["t1"]).v[4])

\* The language of the grammar, read off Productions alone: starts(ts, X, j)
\* is the set of i such that the tokens ts[i + 1 .. j] derive from symbol X.  A
\* right-hand side is matched from its last symbol to its first, so that the
\* left-recursive productions recurse on a shorter span.
RECURSIVE starts(_, _, _)
RECURSIVE starts_seq(_, _, _)
starts(ts, X, j) ==
  IF X \in token_defs
  THEN (IF j >= 1 /\ ts[j] = X THEN {j - 1} ELSE {})
  ELSE UNION {starts_seq(ts, Productions[n].rhs, {j}) :
                n \in {n \in DOMAIN Productions : Productions[n].name = X}}

starts_seq(ts, rhs, J) ==
  IF rhs = << >> \/ J = {} THEN J
  ELSE starts_seq(ts, SubSeq(rhs, 1, Len(rhs) - 1),
                  UNION {starts(ts, rhs[Len(rhs)], j) : j \in J})

\* the whole scan of a source: the tokens up to its end or to the first
\* position where no pattern matches (bad: its 1-based column, 0 if none)
RECURSIVE lex_all(_)
lex_all(g) ==
  LET r == scan(g) IN
  CASE r.how = "yield" ->
         LET rest == lex_all(r.gen) IN [toks |-> << r.tok >> \o rest.toks, bad |-> rest.bad]
    [] r.how = "StopIteration" -> [toks |-> << >>, bad |-> 0]
    [] r.how = "raise" -> [toks |-> << >>, bad |-> g.linepos]

\* the source is a sentence of the grammar
matches(s) ==
  LET l == lex_all(Generator(s))
      ts == [i \in DOMAIN l.toks |-> l.toks[i].type]
  IN l.bad = 0 /\ 0 \in starts(ts, "path_arg", Len(ts))

done(t) == pc[t] \in {"returned", "raised"}

\* the token kinds of a source, up to the first character no pattern matches
kinds(s) ==
  LET l == lex_all(Generator(s)) IN [i \in DOMAIN l.toks |-> l.toks[i].type]

\* the kind of the token before / after the i-th, "" at the ends
prev(ts, i) == IF i > 1 THEN ts[i - 1] ELSE ""
next(ts, i) == IF i < Len(ts) THEN ts[i + 1] ELSE ""

\* the kind of the nearest token before the i-th that is not whitespace
RECURSIVE before(_, _)
before(ts, i) ==
  IF i <= 1 THEN "" ELSE IF ts[i - 1] # "WSP" THEN ts[i - 1] ELSE before(ts, i - 1)

\* how many more tokens of kind open than of kind close come before the i-th
depth(ts, i, open, close) ==
  Cardinality({j \in 1..(i - 1) : ts[j] = open})
  - Cardinality({j \in 1..(i - 1) : ts[j] = close})

in_predicate(ts, i) == depth(ts, i, "LEFT_SQUARE_BRACKET", "RIGHT_SQUARE_BRACKET") > 0
in_call(ts, i) == depth(ts, i, "LEFT_PARENTHESIS", "RIGHT_PARENTHESIS") > 0

\* the i-th token is a "/" that separates segments of the main path: outside
\* every predicate and call, and not the "/" that follows deref(...)
main_slash(ts, i) ==
  /\ ts[i] = "SLASH"
  /\ ~in_predicate(ts, i)
  /\ ~in_call(ts, i)
  /\ before(ts, i) # "RIGHT_PARENTHESIS"

\* some whitespace stands next to a "/" of the main path
main_slash_wsp(ts) ==
  \E i \in DOMAIN ts : main_slash(ts, i) /\ "WSP" \in {prev(ts, i), next(ts, i)}

ast(up, dn, derefup, derefdn) == PyTuple(<< PyInt(up), dn, PyInt(derefup), derefdn >>)

dots_a_b == << ".", ".", "/", "a", "/", "b" >>
dots_a_b_spaced == << ".", ".", " ", "/", " ", "a", " ", "/", " ", "b" >>
dots_a_b_mixed == << ".", ".", " ", "/", "a", "/", " ", "b" >>

\* C2 as amended: "../a/b" parses to up 1, dn [a, b], derefup 0, derefdn None;
\* whitespace next to a "/" of the main path is a syntax error, and
\* ".. / a / b" and ".. /a/ b" raise it for the whitespace at column 3.
C2_MainPathWhitespaceRejected ==
  LET s == source["t1"]
      r == result["t1"]
  IN done("t1") =>
       /\ s = dots_a_b =>
            r = ast(1, PyList(<< PyStr(<< "a" >>), PyStr(<< "b" >>) >>), 0, None)
       /\ s \in {dots_a_b_spaced, dots_a_b_mixed} =>
            r = SyntaxError(<< PyStr(error_message(1, 3, << " " >>)) >>)
       /\ main_slash_wsp(kinds(s)) => raised("t1") /\ r.k = "SyntaxError"

\* ".. / a / b" was parsed, and raised
C2_Witness ==
  /\ raised("t1")
  /\ source["t1"] = dots_a_b_spaced
  /\ main_slash_wsp(kinds(source["t1"]))

\* C2 as claimed: "../a/b", ".. / a / b" and ".. /a/ b" all parse to the AST
\* up 1, dn [a, b], derefup 0, derefdn None.
C2_WhitespaceIdempotent ==
  (done("t1") /\ source["t1"] \in {dots_a_b, dots_a_b_spaced, dots_a_b_mixed}) =>
    result["t1"] = ast(1, PyList(<< PyStr(<< "a" >>), PyStr(<< "b" >>) >>), 0, None)

\* a word that is no keyword, for each keyword
plain_word(value) == IF value \in {current, deref} THEN value \o << "_" >> ELSE value

\* the source with every current and deref that no "(" follows made a plain word
plain(s) ==
  LET l == lex_all(Generator(s))
      ts == [i \in DOMAIN l.toks |-> l.toks[i].type]
      follows(i) == \E j \in (i + 1)..Len(ts) :
                      /\ ts[j] = "LEFT_PARENTHESIS"
                      /\ \A m \in (i + 1)..(j - 1) : ts[m] = "WSP"
  IN Concat([i \in DOMAIN ts |->
       IF follows(i) THEN l.toks[i].value ELSE plain_word(l.toks[i].value)])

\* the AST with every identifier current or deref made the plain word
RECURSIVE plain_ast(_)
plain_ast(v) ==
  CASE v.k = "str" -> PyStr(plain_word(v.v))
    [] v.k \in {"tuple", "list"} -> [v EXCEPT !.v = [i \in DOMAIN v.v |-> plain_ast(v.v[i])]]
    [] OTHER -> v

\* C3: current and deref parse as ordinary identifiers wherever a node
\* identifier is expected and no "(" follows: whenever the path with other
\* words in their place is accepted, the path is accepted with the same AST up
\* to those words.
C3_ReservedWordsAsIdentifiers ==
  LET s == source["t1"]
  IN (done("t1") /\ lex_all(Generator(s)).bad = 0 /\ parse(plain(s)).k = "tuple") =>
       /\ returned("t1")
       /\ plain_ast(result["t1"]) = parse(plain(s))

\* the whitespace token at i stands at one of the predicate and function-call
\* points: after "[", before "]", next to "=", next to "(", before ")", next to
\* a "/" inside a predicate, or next to the "/" that follows deref(...)
call_point(ts, i) ==
  \/ prev(ts, i) \in {"LEFT_SQUARE_BRACKET", "EQUAL", "LEFT_PARENTHESIS"}
  \/ next(ts, i) \in {"RIGHT_SQUARE_BRACKET", "EQUAL", "LEFT_PARENTHESIS", "RIGHT_PARENTHESIS"}
  \/ in_predicate(ts, i) /\ "SLASH" \in {prev(ts, i), next(ts, i)}
  \/ /\ ~in_predicate(ts, i)
     /\ ~in_call(ts, i)
     /\ \/ next(ts, i) = "SLASH" /\ prev(ts, i) = "RIGHT_PARENTHESIS"
        \/ prev(ts, i) = "SLASH" /\ before(ts, i - 1) = "RIGHT_PARENTHESIS"

\* C5: whitespace at the predicate and function-call points changes nothing:
\* when the path without its whitespace is accepted, so is the path, with the
\* identical AST.
C5_WhitespaceOptional ==
  LET s == source["t1"]
      ts == kinds(s)
  IN (/\ done("t1")
      /\ lex_all(Generator(s)).bad = 0
      /\ \A i \in DOMAIN ts : ts[i] = "WSP" => call_point(ts, i)
      /\ parse(strip(s)).k = "tuple")
     => result["t1"] = parse(strip(s))

\* the 1-based column of the i-th token: one past the text of those before it
column(toks, i) == 1 + Len(Concat([j \in 1..(i - 1) |-> toks[j].value]))

slash_slash_a == << "/", "/", "a" >>
a_bang_b == << "a", " ", "!", " ", "b" >>

\* C8 as amended: an input that is no sentence of the grammar raises
\* SyntaxError and returns no AST.  The parser's error names line 1 and the
\* column and text of the token it could not shift or reduce, the last one it
\* pulled ("//a": column 2, "/"), or says 'unexpected end of expression' when
\* the tokens ran out.  The lexer's error (line 1, the column of the character
\* no pattern matches) is raised only when the parser shifted every token
\* before that character: "a ! b" raises the parser's error for the
\* whitespace at column 2.
C8_ErrorsReportFailure ==
  LET s == source["t1"]
      r == result["t1"]
      l == lex_all(Generator(s))
      n == Len(hist.yielded)
      f == frame["t1"]
  IN /\ returned("t1") => matches(s) /\ r.k = "tuple"
     /\ raised("t1") =>
          /\ r.k = "SyntaxError"
          /\ \/ /\ l.bad > 0
                /\ n = Len(l.toks)
                /\ f.lookahead = NoTok
                /\ l.bad = column(l.toks, n + 1)
                /\ \A i \in DOMAIN patterns : match(patterns[i], s, l.bad - 1) = 0
                /\ r = SyntaxError(<< PyStr(syntax_error), PyInt(1), PyInt(l.bad) >>)
             \/ /\ l.bad = 0
                /\ n = Len(l.toks)
                /\ f.lookahead = EndTok
                /\ r = SyntaxError(<< PyStr(unexpected_end) >>)
             \/ /\ n \in DOMAIN l.toks
                /\ f.lookahead = l.toks[n]
                /\ r = SyntaxError(<< PyStr(error_message(1, column(l.toks, n),
                                                          l.toks[n].value)) >>)
     /\ (done("t1") /\ s = slash_slash_a) =>
          r = SyntaxError(<< PyStr(error_message(1, 2, << "/" >>)) >>)
     /\ (done("t1") /\ s = a_bang_b) =>
          r = SyntaxError(<< PyStr(error_message(1, 2, << " " >>)) >>)

\* "a ! b" was parsed and raised the parser's error
C8_Witness ==
  /\ raised("t1")
  /\ source["t1"] = a_bang_b
  /\ frame["t1"].lookahead.type = "WSP"

\* C8 as claimed: an input with a character that no pattern matches raises the
\* lexer's error, with line 1 and the column of that character.
C8_LexerErrorForBadCharacter ==
  LET bad == lex_all(Generator(source["t1"])).bad
  IN (done("t1") /\ bad > 0) =>
       result["t1"] = SyntaxError(<< PyStr(syntax_error), PyInt(1), PyInt(bad) >>)

\* the number of source characters the yielded tokens cover
consumed == Len(Concat([i \in DOMAIN hist.yielded |-> hist.yielded[i].value]))

\* C10: the tokens yielded so far tile a prefix of the source: each is
\* non-empty, on line 1, and starts where the one before it ends, the first at
\* column 1; their texts are the source consumed so far; there are at most
\* len(source) of them; the scan ends by exhausting the source, or by raising
\* SyntaxError at the first position where no pattern matches.
C10_TokensTilePrefix ==
  LET y == hist.yielded
      s == hist.source
  IN /\ \A i \in DOMAIN y :
          /\ Len(y[i].value) > 0
          /\ y[i].lineno = 1
          /\ y[i].lexpos = IF i = 1 THEN 1 ELSE y[i - 1].lexpos + Len(y[i - 1].value)
     /\ consumed <= Len(s)
     /\ Concat([i \in DOMAIN y |-> y[i].value]) = SubSeq(s, 1, consumed)
     /\ Len(y) <= Len(s)
     /\ lexer.tokens # None => lexer.tokens.pos = consumed
     /\ hist.ended = "StopIteration" => consumed = Len(s)
     /\ hist.ended = "raise" =>
          /\ consumed < Len(s)
          /\ \A i \in DOMAIN patterns : match(patterns[i], s, consumed) = 0
          /\ hist.exc = SyntaxError(<< PyStr(syntax_error), PyInt(1), PyInt(consumed + 1) >>)

\* a scan that yielded two tokens and more, and then raised
C10_Witness ==
  /\ hist.ended = "raise"
  /\ Len(hist.yielded) >= 2
  /\ Len(hist.yielded[2].value) >= 2

\* C9: a parse returns what it returns on a fresh process, whatever calls came
\* before on the shared lexer and parser; after input(s2), token() returns only
\* tokens of s2, and once the stream has ended, None on every later call.
C9_NoLeakBetweenCalls ==
  /\ done("t1") => result["t1"] = parse(source["t1"])
  /\ \A i \in DOMAIN hist.yielded :
       /\ i \in DOMAIN lex_all(Generator(hist.source)).toks
       /\ hist.yielded[i] = lex_all(Generator(hist.source)).toks[i]
  /\ hist.late_ok

\* a parse returned an AST after its input() dropped the generator of another
\* source that had tokens left
C9_Witness ==
  /\ returned("t1")
  /\ hist.dropped # None
  /\ hist.dropped.source # source["t1"]
  /\ hist.dropped.pos < Len(hist.dropped.source)

\* C4: with the steps of two calls interleaved, each call returns what it
\* returns when run alone.
C4_ConcurrentCallsSafe ==
  \A t \in Threads : done(t) => result[t] = parse(source[t])

====
